---- MODULE Spec2Model ----
(***************************************************************************)
(* Model of backend/db/seed_data.py: the seeding functions clear_database, *)
(* create_users, create_cooperatives, create_products and                  *)
(* create_transactions acting on the five collections of the database.     *)
(*                                                                         *)
(* Each function is one action (the whole call, its inserts included).     *)
(* Random draws are existentially quantified inputs.  Identifiers          *)
(* (ObjectId) are fresh naturals handed out by nextId.  Times are whole    *)
(* hours; money is in hundredths of a currency unit.  The variable main    *)
(* holds the position of main() and the exit status of the process; it     *)
(* stays at its start when the functions are called one by one.            *)
(***************************************************************************)
EXTENDS Integers, Sequences, FiniteSets, TLC

VARIABLES db, nextId, called, cooperative_ids, last, main

vars == <<db, nextId, called, cooperative_ids, last, main>>

(***************************************************************************)
(* Bounds of the model.                                                    *)
(***************************************************************************)
\* create_users is asked for 1..MaxUsers users
MaxUsers == 14
\* up to this many generated users, every name and phone draw is enumerated;
\* above it one fixed sequence of draws is followed
RichUsers == 4
\* the six-digit part of a phone is drawn from 0..MaxPhoneNumber
MaxPhoneNumber == 2
\* create_cooperatives is asked for 0..MaxCoops cooperatives
MaxCoops == 3
\* create_products is asked for 0..MaxPerCoop products per cooperative
MaxPerCoop == 2

(***************************************************************************)
(* Program constants.                                                      *)
(***************************************************************************)
UsersBatchSize == 100
ProductsBatchSize == 200
TransactionsBatchSize == 200
LogsBatchSize == 500
BuyersLimit == 500

Collections == <<"transactionlogs", "transactions", "products", "cooperatives", "users">>

CollectionNames == {Collections[i] : i \in 1..Len(Collections)}

\* lower-cased "first.last" of two (first name, last name) pairs of the pools
BaseEmails == {"ahmed.alaoui", "fatima.el fassi"}

\* creation times drawn by the enumerated slots, in hours
CreatedAtSample == {0, 2}

\* the slots of create_transactions whose draws are enumerated
RichSlots == {1}

\* the first prefixes of generate_moroccan_phone
PhonePrefixes == {612, 613}

(***************************************************************************)
(* Generic helpers.                                                        *)
(***************************************************************************)
Min(a, b) == IF a < b THEN a ELSE b

Range(s) == {s[i] : i \in 1..Len(s)}

\* the elements of s that satisfy Test, in order
SelectIdx(s, Test(_)) ==
  LET RECURSIVE Go(_)
      Go(i) == IF i > Len(s) THEN <<>>
               ELSE IF Test(s[i]) THEN <<s[i]>> \o Go(i + 1) ELSE Go(i + 1)
  IN Go(1)

\* str(n) for n >= 0, as the sequence of its decimal digits
RECURSIVE DecStr(_)
DecStr(n) == IF n < 10 THEN <<n>> ELSE DecStr(n \div 10) \o <<n % 10>>

\* str(ObjectId): the identifier's own text, distinct from the identifier
StrId(id) == <<"str", id>>

(***************************************************************************)
(* Text.  A str is the sequence of its characters, a character outside     *)
(* ASCII being written by its code point ("U+0632").                       *)
(***************************************************************************)
UpperCase ==
  <<"A", "B", "C", "D", "E", "F", "G", "H", "I", "J", "K", "L", "M", "N", "O",
    "P", "Q", "R", "S", "T", "U", "V", "W", "X", "Y", "Z", "U+00C9">>

LowerCase ==
  <<"a", "b", "c", "d", "e", "f", "g", "h", "i", "j", "k", "l", "m", "n", "o",
    "p", "q", "r", "s", "t", "u", "v", "w", "x", "y", "z", "U+00E9">>

\* str.lower(): a capital becomes its small letter, any other character stays
Lower(s) ==
  [i \in 1..Len(s) |->
     IF \E k \in 1..Len(UpperCase) : UpperCase[k] = s[i]
     THEN LowerCase[CHOOSE k \in 1..Len(UpperCase) : UpperCase[k] = s[i]]
     ELSE s[i]]

\* `sub in s` for two str
Contains(sub, s) ==
  \E i \in 0..(Len(s) - Len(sub)) : SubSeq(s, i + 1, i + Len(sub)) = sub

\* str.split(): the maximal runs without a blank, in order
Split(s) ==
  LET starts == {i \in 1..Len(s) : s[i] # " " /\ (i = 1 \/ s[i - 1] = " ")}
      start(k) == CHOOSE i \in starts : Cardinality({j \in starts : j < i}) = k - 1
      end(i) == CHOOSE e \in i..Len(s) :
                  /\ \A j \in i..e : s[j] # " "
                  /\ (e = Len(s) \/ s[e + 1] = " ")
  IN [k \in 1..Cardinality(starts) |-> SubSeq(s, start(k), end(start(k)))]

\* f'{a} {b}'
Spaced(a, b) == a \o <<" ">> \o b

(***************************************************************************)
(* The tables of the module.                                               *)
(***************************************************************************)
\* PRODUCT_CATEGORIES in the order of the dict: the key, and the names in
\* Arabic, English and French
PRODUCT_CATEGORIES ==
  <<
    [key |-> "Argan", text |-> <<"A", "r", "g", "a", "n">>,
     names |-> <<<<"U+0632", "U+064A", "U+062A", " ", "U+0627", "U+0644", "U+0623", "U+0631",
                   "U+0643", "U+0627", "U+0646">>,
                 <<"A", "r", "g", "a", "n", " ", "O", "i", "l">>,
                 <<"H", "u", "i", "l", "e", " ", "d", "'", "A", "r", "g", "a", "n">>>>],
    [key |-> "Olive", text |-> <<"O", "l", "i", "v", "e">>,
     names |-> <<<<"U+0632", "U+064A", "U+062A", " ", "U+0627", "U+0644", "U+0632", "U+064A",
                   "U+062A", "U+0648", "U+0646">>,
                 <<"O", "l", "i", "v", "e", " ", "O", "i", "l">>,
                 <<"H", "u", "i", "l", "e", " ", "d", "'", "O", "l", "i", "v", "e">>>>],
    [key |-> "Honey", text |-> <<"H", "o", "n", "e", "y">>,
     names |-> <<<<"U+0639", "U+0633", "U+0644">>,
                 <<"H", "o", "n", "e", "y">>,
                 <<"M", "i", "e", "l">>>>],
    [key |-> "Dates", text |-> <<"D", "a", "t", "e", "s">>,
     names |-> <<<<"U+062A", "U+0645", "U+0631">>,
                 <<"D", "a", "t", "e", "s">>,
                 <<"D", "a", "t", "t", "e", "s">>>>],
    [key |-> "Saffron", text |-> <<"S", "a", "f", "f", "r", "o", "n">>,
     names |-> <<<<"U+0632", "U+0639", "U+0641", "U+0631", "U+0627", "U+0646">>,
                 <<"S", "a", "f", "f", "r", "o", "n">>,
                 <<"S", "a", "f", "r", "a", "n">>>>],
    [key |-> "Almonds", text |-> <<"A", "l", "m", "o", "n", "d", "s">>,
     names |-> <<<<"U+0644", "U+0648", "U+0632">>,
                 <<"A", "l", "m", "o", "n", "d", "s">>,
                 <<"A", "m", "a", "n", "d", "e", "s">>>>],
    [key |-> "Spices", text |-> <<"S", "p", "i", "c", "e", "s">>,
     names |-> <<<<"U+0628", "U+0647", "U+0627", "U+0631", "U+0627", "U+062A">>,
                 <<"S", "p", "i", "c", "e", "s">>,
                 <<"U+00C9", "p", "i", "c", "e", "s">>>>],
    [key |-> "Couscous", text |-> <<"C", "o", "u", "s", "c", "o", "u", "s">>,
     names |-> <<<<"U+0643", "U+0633", "U+0643", "U+0633">>,
                 <<"C", "o", "u", "s", "c", "o", "u", "s">>,
                 <<"C", "o", "u", "s", "c", "o", "u", "s">>>>],
    [key |-> "Tea", text |-> <<"T", "e", "a">>,
     names |-> <<<<"U+0634", "U+0627", "U+064A">>,
                 <<"T", "e", "a">>,
                 <<"T", "h", "U+00E9">>>>],
    [key |-> "Ceramics", text |-> <<"C", "e", "r", "a", "m", "i", "c", "s">>,
     names |-> <<<<"U+0641", "U+062E", "U+0627", "U+0631">>,
                 <<"C", "e", "r", "a", "m", "i", "c", "s">>,
                 <<"C", "U+00E9", "r", "a", "m", "i", "q", "u", "e">>>>],
    [key |-> "Wool", text |-> <<"W", "o", "o", "l">>,
     names |-> <<<<"U+0635", "U+0648", "U+0641">>,
                 <<"W", "o", "o", "l">>,
                 <<"L", "a", "i", "n", "e">>>>],
    [key |-> "Leather", text |-> <<"L", "e", "a", "t", "h", "e", "r">>,
     names |-> <<<<"U+062C", "U+0644", "U+062F">>,
                 <<"L", "e", "a", "t", "h", "e", "r">>,
                 <<"C", "u", "i", "r">>>>]
  >>

Categories == {PRODUCT_CATEGORIES[k].key : k \in 1..Len(PRODUCT_CATEGORIES)}

\* PRODUCT_CATEGORIES[category], category being a key
CategoryEntry(category) ==
  PRODUCT_CATEGORIES[CHOOSE k \in 1..Len(PRODUCT_CATEGORIES) :
                       PRODUCT_CATEGORIES[k].key = category]

\* two entries of MOROCCAN_REGIONS (Casablanca-Settat and Souss-Massa)
MOROCCAN_REGIONS ==
  <<
    [name |-> <<"C", "a", "s", "a", "b", "l", "a", "n", "c", "a", "-", "S", "e", "t", "t",
              "a", "t">>,
     cities |-> <<<<"C", "a", "s", "a", "b", "l", "a", "n", "c", "a">>,
                  <<"S", "e", "t", "t", "a", "t">>,
                  <<"M", "o", "h", "a", "m", "m", "e", "d", "i", "a">>,
                  <<"E", "l", " ", "J", "a", "d", "i", "d", "a">>>>],
    [name |-> <<"S", "o", "u", "s", "s", "-", "M", "a", "s", "s", "a">>,
     cities |-> <<<<"A", "g", "a", "d", "i", "r">>,
                  <<"T", "a", "r", "o", "u", "d", "a", "n", "t">>,
                  <<"T", "i", "z", "n", "i", "t">>,
                  <<"O", "u", "l", "a", "d", " ", "T", "e", "i", "m", "a">>>>]
  >>

\* the fixed words of the templates of generate_cooperative_name
TemplateWords ==
  [taawuniya |-> <<"U+062A", "U+0639", "U+0627", "U+0648", "U+0646", "U+064A", "U+0629">>,
   jamiya |-> <<"U+062C", "U+0645", "U+0639", "U+064A", "U+0629">>,
   lil |-> <<"U+0644", "U+0644">>,
   Cooperative |-> <<"C", "o", "o", "p", "e", "r", "a", "t", "i", "v", "e">>,
   CooperativeFr |-> <<"C", "o", "o", "p", "U+00E9", "r", "a", "t", "i", "v", "e">>,
   Collective |-> <<"C", "o", "l", "l", "e", "c", "t", "i", "v", "e">>]

\* the entry of templates that random.choice takes, product_type being the
\* category drawn first
GenerateCooperativeName(region, city, product_type, template) ==
  LET product_ar == CategoryEntry(product_type).names[1]
      product_en == CategoryEntry(product_type).names[2]
      w == TemplateWords
  IN CASE template = 1 -> Spaced(w.taawuniya, Spaced(product_ar, city))
       [] template = 2 -> Spaced(w.jamiya, Spaced(product_ar, region.name))
       [] template = 3 -> Spaced(city, Spaced(product_en, w.Cooperative))
       [] template = 4 -> Spaced(w.CooperativeFr, Spaced(product_en, city))
       [] template = 5 -> Spaced(region.name, Spaced(product_en, w.Collective))
       [] template = 6 -> Spaced(w.jamiya, Spaced(city, w.lil \o product_ar))

\* the names generate_cooperative_name returns for the regions and cities of
\* Places (pairs of positions in MOROCCAN_REGIONS and in cities) and the
\* categories of Types
CooperativeNames(Places, Types) ==
  {GenerateCooperativeName(MOROCCAN_REGIONS[p[1]], MOROCCAN_REGIONS[p[1]].cities[p[2]],
                           t, k) :
     p \in Places, t \in Types, k \in 1..6}

\* the dict products of generate_product_name
ProductNames ==
  <<
    [key |-> "Argan",
     names |-> <<<<"U+0632", "U+064A", "U+062A", " ", "U+0627", "U+0644", "U+0623", "U+0631",
                   "U+0643", "U+0627", "U+0646", " ", "U+0627", "U+0644",
                   "U+0639", "U+0636", "U+0648", "U+064A", " ", "U+0627",
                   "U+0644", "U+0645", "U+0645", "U+062A", "U+0627",
                   "U+0632">>,
                 <<"P", "r", "e", "m", "i", "u", "m", " ", "O", "r", "g", "a", "n", "i", "c",
                   " ", "A", "r", "g", "a", "n", " ", "O", "i", "l">>,
                 <<"U+0632", "U+064A", "U+062A", " ", "U+0627", "U+0644", "U+0623", "U+0631",
                   "U+0643", "U+0627", "U+0646", " ", "U+0644", "U+0644",
                   "U+0628", "U+0634", "U+0631", "U+0629">>,
                 <<"C", "o", "s", "m", "e", "t", "i", "c", " ", "A", "r", "g", "a", "n", " ",
                   "O", "i", "l">>,
                 <<"U+062D", "U+0628", "U+0627", "U+062A", " ", "U+0627", "U+0644", "U+0623",
                   "U+0631", "U+0643", "U+0627", "U+0646", " ", "U+0627",
                   "U+0644", "U+062E", "U+0627", "U+0645">>,
                 <<"R", "a", "w", " ", "A", "r", "g", "a", "n", " ", "N", "u", "t", "s">>>>],
    [key |-> "Olive",
     names |-> <<<<"U+0632", "U+064A", "U+062A", " ", "U+0627", "U+0644", "U+0632", "U+064A",
                   "U+062A", "U+0648", "U+0646", " ", "U+0627", "U+0644",
                   "U+0628", "U+0643", "U+0631", " ", "U+0627", "U+0644",
                   "U+0645", "U+0645", "U+062A", "U+0627", "U+0632">>,
                 <<"E", "x", "t", "r", "a", " ", "V", "i", "r", "g", "i", "n", " ", "O", "l",
                   "i", "v", "e", " ", "O", "i", "l">>,
                 <<"U+0632", "U+064A", "U+062A", "U+0648", "U+0646", " ", "U+0623", "U+062E",
                   "U+0636", "U+0631">>,
                 <<"G", "r", "e", "e", "n", " ", "O", "l", "i", "v", "e", "s">>,
                 <<"U+0632", "U+064A", "U+062A", "U+0648", "U+0646", " ", "U+0623", "U+0633",
                   "U+0648", "U+062F">>,
                 <<"B", "l", "a", "c", "k", " ", "O", "l", "i", "v", "e", "s">>>>],
    [key |-> "Honey",
     names |-> <<<<"U+0639", "U+0633", "U+0644", " ", "U+0627", "U+0644", "U+0623", "U+0631",
                   "U+0643", "U+0627", "U+0646">>,
                 <<"A", "r", "g", "a", "n", " ", "H", "o", "n", "e", "y">>,
                 <<"U+0639", "U+0633", "U+0644", " ", "U+0627", "U+0644", "U+0632", "U+0647",
                   "U+0648", "U+0631", " ", "U+0627", "U+0644", "U+0628",
                   "U+0631", "U+064A", "U+0629">>,
                 <<"W", "i", "l", "d", "f", "l", "o", "w", "e", "r", " ", "H", "o", "n", "e",
                   "y">>,
                 <<"U+0639", "U+0633", "U+0644", " ", "U+0627", "U+0644", "U+062C", "U+0628",
                   "U+0644">>,
                 <<"M", "o", "u", "n", "t", "a", "i", "n", " ", "H", "o", "n", "e", "y">>>>],
    [key |-> "Dates",
     names |-> <<<<"U+062A", "U+0645", "U+0631", " ", "U+0627", "U+0644", "U+0645", "U+062C",
                   "U+0647", "U+0648", "U+0644">>,
                 <<"M", "e", "d", "j", "o", "o", "l", " ", "D", "a", "t", "e", "s">>,
                 <<"U+062A", "U+0645", "U+0631", " ", "U+0627", "U+0644", "U+0639", "U+062C",
                   "U+0648", "U+0629">>,
                 <<"A", "j", "w", "a", " ", "D", "a", "t", "e", "s">>,
                 <<"U+0645", "U+0639", "U+062C", "U+0648", "U+0646", " ", "U+0627", "U+0644",
                   "U+062A", "U+0645", "U+0631">>,
                 <<"D", "a", "t", "e", " ", "P", "a", "s", "t", "e">>>>],
    [key |-> "Saffron",
     names |-> <<<<"U+0632", "U+0639", "U+0641", "U+0631", "U+0627", "U+0646", " ", "U+062E",
                   "U+064A", "U+0648", "U+0637", " ", "U+0645", "U+0645",
                   "U+062A", "U+0627", "U+0632">>,
                 <<"P", "r", "e", "m", "i", "u", "m", " ", "S", "a", "f", "f", "r", "o", "n",
                   " ", "T", "h", "r", "e", "a", "d", "s">>,
                 <<"U+0632", "U+0639", "U+0641", "U+0631", "U+0627", "U+0646", " ", "U+0645",
                   "U+0637", "U+062D", "U+0648", "U+0646">>,
                 <<"G", "r", "o", "u", "n", "d", " ", "S", "a", "f", "f", "r", "o", "n">>>>],
    [key |-> "Almonds",
     names |-> <<<<"U+0644", "U+0648", "U+0632", " ", "U+0639", "U+0636", "U+0648", "U+064A">>,
                 <<"O", "r", "g", "a", "n", "i", "c", " ", "A", "l", "m", "o", "n", "d", "s">>,
                 <<"U+0644", "U+0648", "U+0632", " ", "U+0645", "U+062D", "U+0645", "U+0635">>,
                 <<"R", "o", "a", "s", "t", "e", "d", " ", "A", "l", "m", "o", "n", "d", "s">>>>],
    [key |-> "Spices",
     names |-> <<<<"U+0631", "U+0623", "U+0633", " ", "U+0627", "U+0644", "U+062D", "U+0627",
                   "U+0646", "U+0648", "U+062A">>,
                 <<"R", "a", "s", " ", "e", "l", " ", "H", "a", "n", "o", "u", "t">>,
                 <<"U+0643", "U+0645", "U+0648", "U+0646">>,
                 <<"C", "u", "m", "i", "n", " ", "S", "e", "e", "d", "s">>,
                 <<"U+0643", "U+0632", "U+0628", "U+0631", "U+0629">>,
                 <<"C", "o", "r", "i", "a", "n", "d", "e", "r", " ", "S", "e", "e", "d", "s">>>>]
  >>

\* every value random.choice(products[category]) can take, or the one value
\* f'{category} Product'
ProductNamePool(category) ==
  LET at == {k \in 1..Len(ProductNames) : ProductNames[k].key = category}
  IN IF at # {} THEN ProductNames[CHOOSE k \in at : TRUE].names
     ELSE <<Spaced(CategoryEntry(category).text, <<"P", "r", "o", "d", "u", "c", "t">>)>>

(***************************************************************************)
(* Storage (pymongo collections).                                          *)
(***************************************************************************)
EmptyDb == [c \in CollectionNames |-> <<>>]

\* docs with fresh identifiers first, first + 1, ... in order
WithIds(docs, first) ==
  [i \in 1..Len(docs) |-> [docs[i] EXCEPT !._id = first + i - 1]]

\* the slices users[i:i + batch_size] for i in range(0, len(users), batch_size)
RECURSIVE Batches(_, _)
Batches(docs, size) ==
  IF docs = <<>> THEN <<>>
  ELSE IF Len(docs) <= size THEN <<docs>>
  ELSE <<SubSeq(docs, 1, size)>> \o Batches(SubSeq(docs, size + 1, Len(docs)), size)

\* insert_many refuses an empty list of documents
InsertManyRaises(docs) == docs = <<>>

\* collection.insert_many(batch) for every batch in turn: the collection after
RECURSIVE InsertBatches(_, _, _)
InsertBatches(coll, batches, first) ==
  IF batches = <<>> THEN coll
  ELSE InsertBatches(coll \o WithIds(Head(batches), first), Tail(batches),
                     first + Len(Head(batches)))

\* the identifiers insert_many hands back for docs, in insertion order
InsertedIds(docs, first) == [i \in 1..Len(docs) |-> first + i - 1]

NoCall ==
  [op |-> "none", arg |-> 0, raised |-> "none", ret |-> <<>>, built |-> <<>>,
   logs |-> <<>>, failed |-> {}, attempted |-> <<>>, slots |-> <<>>,
   categories |-> <<>>, read |-> 0, warned |-> FALSE]

(***************************************************************************)
(* clear_database                                                          *)
(***************************************************************************)
\* clear_database without its try/except: the first failure ends the loop
RECURSIVE ClearLoopNoExcept(_, _, _, _)
ClearLoopNoExcept(names, fails, d, attempted) ==
  IF names = <<>> THEN [db |-> d, attempted |-> attempted, raised |-> "none"]
  ELSE LET c == Head(names)
       IN IF c \in fails
          THEN [db |-> d, attempted |-> Append(attempted, c), raised |-> "Exception"]
          ELSE ClearLoopNoExcept(Tail(names), fails, [d EXCEPT ![c] = <<>>],
                                 Append(attempted, c))

\* the for loop of clear_database over names, where delete_many raises on the
\* collections in fails: the db after, the collections on which delete_many
\* was called, and the exception that leaves the function
RECURSIVE ClearLoop(_, _, _, _)
ClearLoop(names, fails, d, attempted) ==
  IF names = <<>> THEN [db |-> d, attempted |-> attempted, raised |-> "none"]
  ELSE LET c == Head(names)
       IN IF c \in fails
          THEN \* except Exception: print, go on with the next collection
               ClearLoop(Tail(names), fails, d, Append(attempted, c))
          ELSE ClearLoop(Tail(names), fails, [d EXCEPT ![c] = <<>>],
                         Append(attempted, c))

ClearDatabase(FailSets) ==
  /\ "clear_database" \notin called
  /\ \E fails \in FailSets :
       LET r == ClearLoop(Collections, fails, db, <<>>)
       IN /\ db' = r.db
          /\ last' = [NoCall EXCEPT !.op = "clear_database", !.failed = fails,
                                    !.attempted = r.attempted,
                                    !.raised = r.raised]
  /\ called' = called \cup {"clear_database"}
  /\ UNCHANGED <<nextId, cooperative_ids>>

(***************************************************************************)
(* create_users                                                            *)
(***************************************************************************)
\* f'{base_email}{digits}@sou9na.ma': the base and the digits after it (no
\* base ends in a digit, so two addresses are equal iff both parts are)
Email(base, digits) == <<base, digits>>

AdminEmail == Email("admin", <<>>)

\* f'212{prefix}{number}', number being six digits
Phone(prefix, number) == <<212, prefix, number>>

AdminPhone == Phone(612, 0)

\* every value generate_moroccan_phone returns in the model
PhonePool == {Phone(p, n) : p \in PhonePrefixes, n \in 0..MaxPhoneNumber}

\* round((count - 1) * 0.2) in place of int(...)
ProducerCountRounded(count) == ((count - 1) * 2 + 5) \div 10

\* int((count - 1) * 0.2): 0.2 is stored just above 1/5, so the product is
\* never below the exact one and truncation gives floor((count - 1) / 5)
ProducerCount(count) == ((count - 1) * 2) \div 10

BuyerCount(count) == count - 1 - ProducerCount(count)

\* the while loop that appends counter = 0, 1, ... until the address is new
RECURSIVE RetryEmail(_, _, _, _)
RetryEmail(base, i, counter, used) ==
  LET email == Email(base, DecStr(i) \o DecStr(counter))
  IN IF email \in used THEN RetryEmail(base, i, counter + 1, used) ELSE email

UniqueEmail(base, i, used) ==
  LET email == Email(base, DecStr(i))
  IN IF email \in used THEN RetryEmail(base, i, 0, used) ELSE email

\* what the set used_phones holds when the j-th generated user draws its
\* phone: the phones of the generated users before it, the admin's not among them
UsedPhones(phones, j) == {phones[m] : m \in 1..(j - 1)}

\* what the set used_emails holds when the generated users so far are users
UsedEmails(users) == {users[j].email : j \in 2..Len(users)}

AdminUser == [_id |-> 0, email |-> AdminEmail, phone |-> AdminPhone, role |-> "ADMIN"]

\* one pass of a generation loop (role PRODUCER or BUYER) for i = from..n-1;
\* names[j], phones[j] are the draws of the j-th generated user
RECURSIVE UserLoop(_, _, _, _, _, _)
UserLoop(users, role, i, n, names, phones) ==
  IF i >= n THEN users
  ELSE LET j == Len(users)
           user == [_id |-> 0,
                    email |-> UniqueEmail(names[j], i, UsedEmails(users)),
                    phone |-> phones[j],
                    role |-> role]
       IN UserLoop(Append(users, user), role, i + 1, n, names, phones)

\* the list users of create_users(count) before insertion
BuildUsers(count, names, phones) ==
  LET producers == UserLoop(<<AdminUser>>, "PRODUCER", 0, ProducerCount(count),
                            names, phones)
  IN UserLoop(producers, "BUYER", 0, BuyerCount(count), names, phones)

\* the phone loop `while phone in used_phones` ends with a value of
\* generate_moroccan_phone that is not in used_phones
PhoneDraws(k, rich) ==
  IF rich /\ k <= RichUsers
  THEN {f \in [1..k -> PhonePool] : \A j \in 1..k : f[j] \notin UsedPhones(f, j)}
  ELSE {[j \in 1..k |-> Phone(613, j)]}

NameDraws(k, rich) ==
  IF rich /\ k <= RichUsers
  THEN [1..k -> BaseEmails]
  ELSE {[j \in 1..k |-> "ahmed.alaoui"]}

CreateUsers(Counts, rich) ==
  /\ "create_users" \notin called
  /\ \E count \in Counts :
       \E names \in NameDraws(count - 1, rich), phones \in PhoneDraws(count - 1, rich) :
         LET users == BuildUsers(count, names, phones)
         IN /\ db' = [db EXCEPT !.users =
                        InsertBatches(@, Batches(users, UsersBatchSize), nextId)]
            /\ nextId' = nextId + Len(users)
            /\ last' = [NoCall EXCEPT
                          !.op = "create_users", !.arg = count,
                          !.built = WithIds(users, nextId),
                          !.ret = [i \in 1..Len(users) |->
                                     StrId(InsertedIds(users, nextId)[i])]]
  /\ called' = called \cup {"create_users"}
  /\ UNCHANGED cooperative_ids

(***************************************************************************)
(* create_cooperatives                                                     *)
(***************************************************************************)
\* db.users.find({'role': role}): the users of that role, in natural order
UsersWithRole(role) == SelectIdx(db.users, LAMBDA u : u.role = role)

\* cursor.limit(n): the first n documents, and every document when n = 0
Limit(docs, n) == IF n = 0 THEN docs ELSE SubSeq(docs, 1, Min(n, Len(docs)))

\* list(db.users.find({'role': 'PRODUCER'}, {'_id': 1}).limit(count))
FindProducers(count) ==
  LET producers == Limit(UsersWithRole("PRODUCER"), count)
  IN [i \in 1..Len(producers) |-> producers[i]._id]

\* the producers without the filter on used_producers
AllProducers(producer_ids, used_producers) == producer_ids

\* [pid for pid in producer_ids if pid not in used_producers]
AvailableProducers(producer_ids, used_producers) ==
  SelectIdx(producer_ids, LAMBDA pid : pid \notin used_producers)

\* the for loop over range(count); draws[i] is the position random.choice
\* takes in available_producers at iteration i (reduced to its length),
\* names[i] the value of generate_cooperative_name
RECURSIVE CoopLoop(_, _, _, _, _, _)
CoopLoop(cooperatives, i, count, producer_ids, draws, names) ==
  IF i >= count THEN cooperatives
  ELSE LET used_producers == {cooperatives[j].userId : j \in 1..Len(cooperatives)}
           available_producers == AvailableProducers(producer_ids, used_producers)
       IN IF available_producers = <<>> THEN cooperatives
          ELSE LET producer_id ==
                     available_producers[((draws[i + 1] - 1) % Len(available_producers)) + 1]
               IN CoopLoop(Append(cooperatives,
                                  [_id |-> 0, userId |-> producer_id,
                                   name |-> names[i + 1]]),
                           i + 1, count, producer_ids, draws, names)

\* Names: the values of generate_cooperative_name the draws range over
CreateCooperatives(Counts, Names) ==
  /\ "create_cooperatives" \notin called
  /\ \E asked \in Counts :
       LET producer_ids == FindProducers(asked)
           warned == Len(producer_ids) < asked
           count == IF warned THEN Len(producer_ids) ELSE asked
       IN \E draws \in [1..count -> 1..Len(producer_ids)], names \in [1..count -> Names] :
            LET cooperatives == CoopLoop(<<>>, 0, count, producer_ids, draws, names)
                base == [NoCall EXCEPT
                           !.op = "create_cooperatives", !.arg = asked,
                           !.read = Len(producer_ids), !.warned = warned,
                           !.built = cooperatives]
            IN IF InsertManyRaises(cooperatives)
               THEN \* insert_many raises: nothing is stored, nothing returned
                    /\ last' = [base EXCEPT !.raised = "TypeError"]
                    /\ UNCHANGED <<db, nextId, cooperative_ids>>
               ELSE /\ db' = [db EXCEPT !.cooperatives =
                                InsertBatches(@, <<cooperatives>>, nextId)]
                    /\ nextId' = nextId + Len(cooperatives)
                    /\ cooperative_ids' = InsertedIds(cooperatives, nextId)
                    /\ last' = [base EXCEPT
                                  !.built = WithIds(cooperatives, nextId),
                                  !.ret = InsertedIds(cooperatives, nextId)]
  /\ called' = called \cup {"create_cooperatives"}

\* a name of a cooperative of Agadir whose products are dates, which are the
\* products with prices on both sides of 50
DatesCooperative ==
  GenerateCooperativeName(MOROCCAN_REGIONS[2], MOROCCAN_REGIONS[2].cities[1], "Dates", 3)

(***************************************************************************)
(* create_products                                                         *)
(***************************************************************************)
\* name.lower() for the names of every category
LowerNames ==
  [k \in 1..Len(PRODUCT_CATEGORIES) |->
     [n \in 1..Len(PRODUCT_CATEGORIES[k].names) |-> Lower(PRODUCT_CATEGORIES[k].names[n])]]

\* the inner loop over PRODUCT_CATEGORIES.items() for one word: the position of
\* the first category one of whose names contains the word, both lower-cased,
\* at which the loop breaks; 0 when it ends without a match
MatchingCategory(word) ==
  LET hits == {k \in 1..Len(PRODUCT_CATEGORIES) :
                 \E n \in 1..Len(LowerNames[k]) : Contains(Lower(word), LowerNames[k][n])}
  IN IF hits = {} THEN 0 ELSE CHOOSE k \in hits : \A o \in hits : k <= o

\* the outer loop `for word in coop['name'].split()`: every word that matches
\* assigns category, the loop goes on to the next word
RECURSIVE CategoryLoop(_, _)
CategoryLoop(category, words) ==
  IF words = <<>> THEN category
  ELSE LET k == MatchingCategory(Head(words))
       IN CategoryLoop(IF k = 0 THEN category ELSE PRODUCT_CATEGORIES[k].key,
                       Tail(words))

\* the category of a cooperative: default is the value of random.choice
InferCategory(name, default) == CategoryLoop(default, Split(name))

\* the if/elif chain on product_name, in order: the two words looked for, the
\* bounds of random.uniform in hundredths, the unit
PriceBranches ==
  <<
    [words |-> <<<<"O", "i", "l">>,
                 <<"U+0632", "U+064A", "U+062A">>>>,
     range |-> <<15000, 50000>>, unit |-> <<"l", "i", "t", "e", "r">>],
    [words |-> <<<<"H", "o", "n", "e", "y">>,
                 <<"U+0639", "U+0633", "U+0644">>>>,
     range |-> <<8000, 30000>>, unit |-> <<"k", "g">>],
    [words |-> <<<<"D", "a", "t", "e", "s">>,
                 <<"U+062A", "U+0645", "U+0631">>>>,
     range |-> <<4000, 12000>>, unit |-> <<"k", "g">>],
    [words |-> <<<<"S", "a", "f", "f", "r", "o", "n">>,
                 <<"U+0632", "U+0639", "U+0641", "U+0631", "U+0627", "U+0646">>>>,
     range |-> <<80000, 200000>>, unit |-> <<"1", "0", "0", "g">>],
    [words |-> <<<<"A", "l", "m", "o", "n", "d", "s">>,
                 <<"U+0644", "U+0648", "U+0632">>>>,
     range |-> <<6000, 15000>>, unit |-> <<"k", "g">>],
    [words |-> <<<<"S", "p", "i", "c", "e", "s">>,
                 <<"U+0628", "U+0647", "U+0627", "U+0631", "U+0627", "U+062A">>>>,
     range |-> <<3000, 15000>>, unit |-> <<"1", "0", "0", "g">>]
  >>

\* the other unit of the first branch
UnitKilo == <<"U+0643", "U+064A", "U+0644", "U+0648">>

\* the else branch
OtherRange == <<5000, 30000>>

OtherUnits == <<<<"k", "g">>, <<"p", "i", "e", "c", "e">>, <<"s", "e", "t">>, <<"1", "0", "0", "g">>>>

\* the position of the branch taken for product_name, 0 for the else branch
Branch(product_name) ==
  LET hits == {k \in 1..Len(PriceBranches) :
                 \E n \in 1..2 : Contains(PriceBranches[k].words[n], product_name)}
  IN IF hits = {} THEN 0 ELSE CHOOSE k \in hits : \A o \in hits : k <= o

PriceRange(product_name) ==
  IF Branch(product_name) = 0 THEN OtherRange
  ELSE PriceBranches[Branch(product_name)].range

\* round(random.uniform(lo, hi), 2): the values of the sample within the bounds
Prices(range, sample) == {p \in sample : range[1] <= p /\ p <= range[2]}

\* the units the branch can assign; draws are the positions random.choice
\* takes in the list of the else branch
Units(product_name, draws) ==
  LET k == Branch(product_name)
  IN IF k = 0 THEN {OtherUnits[u] : u \in draws}
     ELSE IF k = 1
          THEN {IF Contains(PriceBranches[1].words[1], product_name)
                THEN PriceBranches[1].unit ELSE UnitKilo}
          ELSE {PriceBranches[k].unit}

(***************************************************************************)
(* get_product_images                                                      *)
(***************************************************************************)
CategorySeeds ==
  "Argan" :> <<100, 101, 102, 103>> @@
  "Olive" :> <<200, 201, 202, 203>> @@
  "Honey" :> <<300, 301, 302, 303>> @@
  "Dates" :> <<400, 401, 402, 403>> @@
  "Saffron" :> <<500, 501, 502, 503>> @@
  "Almonds" :> <<600, 601, 602, 603>> @@
  "Spices" :> <<700, 701, 702, 703>> @@
  "Couscous" :> <<800, 801, 802, 803>> @@
  "Tea" :> <<900, 901, 902, 903>> @@
  "Ceramics" :> <<1000, 1001, 1002, 1003>> @@
  "Wool" :> <<1100, 1101, 1102, 1103>> @@
  "Leather" :> <<1200, 1201, 1202, 1203>>

\* hash() of a str: a function of the text, fixed while the process runs; the
\* model follows one such function
Hash(text) == Len(text) * Len(text) + 3 * Cardinality(Range(text))

\* f'https://picsum.photos/seed/{s}/800/800'
ImageUrl(s) == <<"https://picsum.photos/seed/", s, "/800/800">>

\* image_urls before the selection
ImagePool(category, product_name) ==
  LET seed_base == Hash(CategoryEntry(category).text \o <<"_">> \o product_name) % 1000
  IN IF category \in DOMAIN CategorySeeds
     THEN [i \in 1..Len(CategorySeeds[category]) |->
             ImageUrl(CategorySeeds[category][i] + (seed_base % 10))]
     ELSE [i \in 1..4 |-> ImageUrl(seed_base + 5000 + (i - 1))]

\* the positions random.sample(image_urls, min(num_images, len(image_urls)))
\* can take, num_images being random.randint(2, 4): 2 to 4 positions among
\* size, none twice, in any order
Selections(size) ==
  {s \in UNION {[1..Min(num_images, size) -> 1..size] : num_images \in 2..4} :
     \A i, j \in 1..Len(s) : i # j => s[i] # s[j]}

\* the list returned when the draws take the positions of selection
GetProductImages(category, product_name, selection) ==
  [i \in 1..Len(selection) |-> ImagePool(category, product_name)[selection[i]]]

\* the last image as the primary one
PrimaryImageLast(image_urls) ==
  IF image_urls # <<>> THEN image_urls[Len(image_urls)] ELSE <<>>

\* image_urls[0] if image_urls else None (<<>>)
PrimaryImage(image_urls) ==
  IF image_urls # <<>> THEN image_urls[1] ELSE <<>>

(***************************************************************************)
(* create_products: the loops                                              *)
(***************************************************************************)
None == [_id |-> -1]

\* find_one's None for a cooperative: no identifier, no owner, no name
NoCooperative == [_id |-> -1, userId |-> 0, name |-> <<>>]

\* db.cooperatives.find_one({'_id': coop_id})
FindCooperative(coop_id) ==
  LET found == SelectIdx(db.cooperatives, LAMBDA c : c._id = coop_id)
  IN IF found = <<>> THEN NoCooperative ELSE found[1]

\* the loop without its check of find_one's result
CoopAssumed(coop) == TRUE

\* `if not coop: continue` lets only a document that was found through
CoopFound(coop) == coop # NoCooperative

\* the documents one pass of `for i in range(products_per_coop)` can build.
\* D gives what the draws range over: the positions D.names in the pool of
\* names, the prices D.prices, the positions D.units in the units of the else
\* branch, the selections D.selections of images
ProductsOf(coop_id, category, D) ==
  UNION {LET product_name == ProductNamePool(category)[n]
         IN {[_id |-> 0, cooperativeId |-> coop_id, name |-> product_name,
              price |-> price, unit |-> unit,
              imageUrl |-> PrimaryImage(GetProductImages(category, product_name, sel)),
              imageUrls |-> GetProductImages(category, product_name, sel)] :
               price \in Prices(PriceRange(product_name), D.prices),
               unit \in Units(product_name, D.units),
               sel \in D.selections} :
           n \in D.names \cap (1..Len(ProductNamePool(category)))}

\* the outer for loop over cooperative_ids: every list all_products the draws
\* can give, with the category of each cooperative visited (default is the
\* category drawn before the words are looked at)
RECURSIVE ProductLoop(_, _, _)
ProductLoop(ids, products_per_coop, D) ==
  IF ids = <<>> THEN {[all_products |-> <<>>, categories |-> <<>>]}
  ELSE LET coop_id == Head(ids)
           coop == FindCooperative(coop_id)
           rest == ProductLoop(Tail(ids), products_per_coop, D)
       IN IF ~CoopFound(coop) THEN rest
          ELSE UNION {
                 LET category == InferCategory(coop.name, default)
                 IN {[all_products |->
                        [i \in 1..products_per_coop |-> built[i]] \o r.all_products,
                      categories |->
                        <<[cooperativeId |-> coop_id, name |-> coop.name,
                           default |-> default, category |-> category]>>
                          \o r.categories] :
                       built \in [1..products_per_coop -> ProductsOf(coop_id, category, D)],
                       r \in rest} :
                 default \in D.defaults}

\* the draws that follow one sequence: the category Dates, the first name of
\* the pool, the first unit, the first two images in order
FixedDraws(prices) ==
  [prices |-> prices, defaults |-> {"Dates"}, names |-> {1},
   units |-> {1}, selections |-> {<<1, 2>>}]

CreateProducts(PerCoop, D) ==
  /\ "create_products" \notin called
  /\ \E products_per_coop \in PerCoop :
       \E loop \in ProductLoop(cooperative_ids, products_per_coop, D) :
         LET all_products == loop.all_products
         IN /\ db' = [db EXCEPT !.products =
                        InsertBatches(@, Batches(all_products, ProductsBatchSize), nextId)]
            /\ nextId' = nextId + Len(all_products)
            /\ last' = [NoCall EXCEPT
                          !.op = "create_products", !.arg = products_per_coop,
                          !.built = WithIds(all_products, nextId),
                          !.categories = loop.categories,
                          !.ret = [i \in 1..Len(all_products) |->
                                     StrId(InsertedIds(all_products, nextId)[i])]]
  /\ called' = called \cup {"create_products"}
  /\ UNCHANGED cooperative_ids

(***************************************************************************)
(* create_transactions                                                     *)
(***************************************************************************)
\* status_weights, in the order of the dict, as hundredths
StatusWeights ==
  <<[status |-> "SETTLED", weight |-> 60], [status |-> "DELIVERED", weight |-> 15],
    [status |-> "SHIPPED", weight |-> 10], [status |-> "ESCROWED", weight |-> 10],
    [status |-> "FAILED", weight |-> 5]>>

StatusOrder == <<"INITIATED", "ESCROWED", "SHIPPED", "DELIVERED", "SETTLED">>

Repeat(x, n) == [i \in 1..n |-> x]

\* the count rounded up instead of cut off
WeightCountCeiling(transaction_count, weight) == (transaction_count * weight + 99) \div 100

\* int(transaction_count * weight): the weights 0.60, 0.15, 0.10 and 0.05
\* times a count below 2000000 truncate to the exact floor
WeightCount(transaction_count, weight) == (transaction_count * weight) \div 100

\* the list statuses before the shuffle: a block per weight, padded with SETTLED
RECURSIVE StatusBlocks(_, _)
StatusBlocks(weights, transaction_count) ==
  IF weights = <<>> THEN <<>>
  ELSE Repeat(Head(weights).status, WeightCount(transaction_count, Head(weights).weight))
         \o StatusBlocks(Tail(weights), transaction_count)

StatusList(transaction_count) ==
  LET blocks == StatusBlocks(StatusWeights, transaction_count)
  IN blocks \o Repeat("SETTLED", transaction_count - Len(blocks))

Rotate(s, r) == [i \in 1..Len(s) |-> s[((i - 1 + r) % Len(s)) + 1]]

\* random.shuffle(statuses): of all the orders, the model follows the rotations
\* that bring the first status of a block to the front
Shuffles(s) ==
  {Rotate(s, r) : r \in {0} \cup {k \in 1..(Len(s) - 1) : s[k] # s[k + 1]}}

\* cooperatives.get(coop_id) on the dict {str(c['_id']): c['userId']}; 0, which
\* is no identifier, stands for None
SellerOf(coop_key) ==
  LET found == SelectIdx(db.cooperatives, LAMBDA c : StrId(c._id) = coop_key)
  IN IF found = <<>> THEN 0 ELSE found[Len(found)].userId

\* the loop without `if not seller_id: continue`
SellerAssumed(seller_id) == TRUE

\* `if not seller_id: continue` lets only a seller that was found through
SellerResolved(seller_id) == seller_id # 0

\* randint(1, 5), drawn again as randint(2, 10) when the price is below 50
QuantityRange(price) == IF price < 5000 THEN 2..10 ELSE 1..5

\* int(amount * 0.05 * 100): the fee cut off instead of rounded
FeeTruncated(amount, up) == (amount * 5) \div 100

\* round(amount * 0.05, 2) in hundredths: the nearest hundredth; when the exact
\* fee lies half-way, the binary value of the product decides, and both
\* directions occur (up is the direction taken)
Fee(amount, up) ==
  LET q == (amount * 5) \div 100
      r == (amount * 5) % 100
  IN IF r < 50 THEN q
     ELSE IF r > 50 THEN q + 1
     ELSE IF up THEN q + 1 ELSE q

\* a settlement date also for DELIVERED, as for the QR signature
SettledAtDelivered(status, created_at, days) ==
  IF status \in {"DELIVERED", "SETTLED"} THEN <<created_at + 24 * days>> ELSE <<>>

\* settled_at: None (<<>>) unless SETTLED, else created_at + timedelta(days)
SettledAt(status, created_at, days) ==
  IF status = "SETTLED" THEN <<created_at + 24 * days>> ELSE <<>>

\* randint(1, 7) is drawn when SETTLED, randint(0, 3) otherwise
DaysRange(status) == IF status = "SETTLED" THEN 1..7 ELSE 0..3

\* one iteration of the main loop with the draws d: the transaction built
Transaction(buyer, product, seller_id, status, d) ==
  LET amount == product.price * d.quantity
      fee == Fee(amount, d.up)
      settled_at == SettledAt(status, d.created_at, d.days)
  IN [_id |-> 0, buyerId |-> buyer._id, sellerId |-> seller_id,
      productId |-> product._id, quantity |-> d.quantity, amount |-> amount,
      fee |-> fee, totalAmount |-> amount + fee, status |-> status,
      settledAt |-> settled_at, createdAt |-> d.created_at,
      updatedAt |-> IF settled_at # <<>> THEN settled_at[1]
                    ELSE d.created_at + 24 * d.days]

\* the main loop for i in range(transaction_count): the transactions built
\* and, per slot, the product drawn, whether the slot was skipped, and
\* statuses[i]
RECURSIVE TransactionLoop(_, _, _, _, _, _)
TransactionLoop(acc, i, buyers, products, statuses, draws) ==
  IF i >= Len(statuses) THEN acc
  ELSE LET d == draws[i + 1]
           buyer == buyers[d.buyer]
           product == products[d.product]
           seller_id == SellerOf(StrId(product.cooperativeId))
           slot == [productId |-> product._id, skipped |-> ~SellerResolved(seller_id),
                    status |-> statuses[i + 1]]
       IN IF ~SellerResolved(seller_id)
          THEN TransactionLoop([acc EXCEPT !.slots = Append(@, slot)],
                               i + 1, buyers, products, statuses, draws)
          ELSE TransactionLoop(
                 [acc EXCEPT !.slots = Append(@, slot),
                             !.transactions = Append(@,
                                Transaction(buyer, product, seller_id, statuses[i + 1], d))],
                 i + 1, buyers, products, statuses, draws)

\* db.transactions.find_one({'buyerId': .., 'productId': .., 'createdAt': ..})
\* on the collection stored: the first document that matches
FindTransaction(stored, tx) ==
  LET found == SelectIdx(stored, LAMBDA t : /\ t.buyerId = tx.buyerId
                                            /\ t.productId = tx.productId
                                            /\ t.createdAt = tx.createdAt)
  IN IF found = <<>> THEN None ELSE found[1]

\* logs_to_create, as the statuses logged
LogsToCreate(final_status) ==
  IF final_status = "FAILED" THEN <<"INITIATED", "FAILED">>
  ELSE LET at == {k \in 1..Len(StatusOrder) : StatusOrder[k] = final_status}
           status_index == IF at = {} THEN 1 ELSE CHOOSE k \in at : TRUE
       IN SubSeq(StatusOrder, 1, status_index)

\* the loop `for tx in transactions` that builds transaction_logs
RECURSIVE LogLoop(_, _, _)
LogLoop(transaction_logs, transactions, stored) ==
  IF transactions = <<>> THEN transaction_logs
  ELSE LET tx == Head(transactions)
           tx_doc == FindTransaction(stored, tx)
           logs_to_create == LogsToCreate(tx.status)
       IN IF tx_doc = None
          THEN LogLoop(transaction_logs, Tail(transactions), stored)
          ELSE LogLoop(
                 transaction_logs \o
                   [idx \in 1..Len(logs_to_create) |->
                      [_id |-> 0, transactionId |-> tx_doc._id,
                       status |-> logs_to_create[idx],
                       createdAt |-> tx.createdAt + (idx - 1) * 2]],
                 Tail(transactions), stored)

\* the values the draws of one slot range over.  A slot of RichSlots varies
\* (product, quantity, rounding), or (creation time, days), or (buyer, product,
\* creation time), the other draws being the first of their range; a later
\* slot i takes the first of every range and creation time i.
SlotDraws(i, status, buyers, products) ==
  LET first == [buyer |-> 1, product |-> 1, created_at |-> i,
                quantity |-> CHOOSE q \in QuantityRange(products[1].price) :
                               \A o \in QuantityRange(products[1].price) : q <= o,
                days |-> CHOOSE n \in DaysRange(status) :
                           \A o \in DaysRange(status) : n <= o,
                up |-> FALSE]
      minq(p) == CHOOSE q \in QuantityRange(products[p].price) :
                   \A o \in QuantityRange(products[p].price) : q <= o
  IN IF i \notin RichSlots THEN {first}
     ELSE {[first EXCEPT !.product = pq[1], !.quantity = pq[2], !.up = u] :
              pq \in {x \in (1..Len(products)) \X (1..10) :
                        x[2] \in QuantityRange(products[x[1]].price)},
              u \in BOOLEAN}
          \cup {[first EXCEPT !.created_at = t, !.days = n] :
                  t \in CreatedAtSample, n \in DaysRange(status)}
          \cup {[first EXCEPT !.buyer = b, !.product = p, !.quantity = minq(p),
                              !.created_at = t] :
                  b \in 1..Len(buyers), p \in 1..Len(products), t \in CreatedAtSample}

\* the sequences of slot draws that respect each draw's range
RECURSIVE DrawSeqs(_, _, _, _)
DrawSeqs(i, statuses, buyers, products) ==
  IF i > Len(statuses) THEN {<<>>}
  ELSE {<<d>> \o rest :
          d \in SlotDraws(i, statuses[i], buyers, products),
          rest \in DrawSeqs(i + 1, statuses, buyers, products)}

\* LogFailures: whether insert_many on transactionlogs raises, the transactions
\* being stored by then
CreateTransactions(Counts, LogFailures) ==
  /\ "create_transactions" \notin called
  /\ \E transaction_count \in Counts :
       LET buyers == Limit(UsersWithRole("BUYER"), BuyersLimit)
           products == db.products
           base == [NoCall EXCEPT !.op = "create_transactions",
                                  !.arg = transaction_count]
       IN IF buyers = <<>> \/ products = <<>>
          THEN \* nothing to draw from: return []
               /\ last' = [base EXCEPT !.warned = TRUE]
               /\ UNCHANGED <<db, nextId>>
          ELSE \E statuses \in Shuffles(StatusList(transaction_count)) :
                 \E draws \in DrawSeqs(1, statuses, buyers, products) :
                   LET loop == TransactionLoop([transactions |-> <<>>, slots |-> <<>>],
                                               0, buyers, products, statuses, draws)
                       transactions == loop.transactions
                       stored == InsertBatches(db.transactions,
                                   Batches(transactions, TransactionsBatchSize), nextId)
                       transaction_logs == LogLoop(<<>>, transactions, stored)
                       first_log == nextId + Len(transactions)
                   IN \E log_failure \in LogFailures :
                        IF log_failure /\ transaction_logs # <<>>
                        THEN /\ db' = [db EXCEPT !.transactions = stored]
                             /\ nextId' = first_log
                             /\ last' = [base EXCEPT
                                           !.raised = "PyMongoError",
                                           !.built = WithIds(transactions, nextId),
                                           !.slots = loop.slots]
                        ELSE /\ db' = [db EXCEPT
                                         !.transactions = stored,
                                         !.transactionlogs =
                                            InsertBatches(@, Batches(transaction_logs,
                                                                     LogsBatchSize),
                                                          first_log)]
                             /\ nextId' = first_log + Len(transaction_logs)
                             /\ last' = [base EXCEPT
                                           !.built = WithIds(transactions, nextId),
                                           !.logs = WithIds(transaction_logs, first_log),
                                           !.slots = loop.slots,
                                           !.ret = [k \in 1..Len(transactions) |->
                                                      StrId(InsertedIds(transactions, nextId)[k])]]
  /\ called' = called \cup {"create_transactions"}
  /\ UNCHANGED cooperative_ids

(***************************************************************************)
(* main                                                                    *)
(***************************************************************************)
\* main() before its first statement
MainStart == [pc |-> "connect", exit |-> "none"]

\* the calls of main's try block, in order
Stages ==
  <<"clear_database", "create_users", "create_cooperatives", "create_products",
    "create_transactions">>

\* a try block whose handler swallows the exception and goes on
AfterStageSwallowed(raised, next) ==
  [pc |-> next, exit |-> IF next = "exit" THEN "0" ELSE "none"]

\* where main stands after a call of its try block: at the next statement when
\* the call returned (falling off the end is exit status 0); `except Exception`
\* ends in sys.exit(1) when it raised
AfterStage(raised, next) ==
  IF raised = "none"
  THEN [pc |-> next, exit |-> IF next = "exit" THEN "0" ELSE "none"]
  ELSE [pc |-> "exit", exit |-> "1"]

\* a call of op whose first storage operation raises: nothing is stored
FirstOperationRaises(op) ==
  /\ op \notin called
  /\ last' = [NoCall EXCEPT !.op = op, !.raised = "PyMongoError"]
  /\ called' = called \cup {op}
  /\ UNCHANGED <<db, nextId, cooperative_ids>>

\* client.admin.command('ping'): on failure sys.exit(1) before db is touched
MainConnect ==
  /\ main.pc = "connect"
  /\ \E ping \in BOOLEAN :
       main' = IF ping THEN [pc |-> Stages[1], exit |-> "none"]
               ELSE [pc |-> "exit", exit |-> "1"]
  /\ UNCHANGED <<db, nextId, called, cooperative_ids, last>>

MainClearDatabase ==
  /\ main.pc = "clear_database"
  /\ ClearDatabase({{}, {"users"}})
  /\ main' = AfterStage(last'.raised, "create_users")

MainCreateUsers ==
  /\ main.pc = "create_users"
  /\ \/ CreateUsers({1, 6}, FALSE)
     \/ FirstOperationRaises("create_users")
  /\ main' = AfterStage(last'.raised, "create_cooperatives")

MainCreateCooperatives ==
  /\ main.pc = "create_cooperatives"
  /\ \/ CreateCooperatives({1}, {DatesCooperative})
     \/ FirstOperationRaises("create_cooperatives")
  /\ main' = AfterStage(last'.raised, "create_products")

MainCreateProducts ==
  /\ main.pc = "create_products"
  /\ \/ CreateProducts({1}, FixedDraws({4010, 5017}))
     \/ FirstOperationRaises("create_products")
  /\ main' = AfterStage(last'.raised, "create_transactions")

MainCreateTransactions ==
  /\ main.pc = "create_transactions"
  /\ \/ CreateTransactions({1, 2}, BOOLEAN)
     \/ FirstOperationRaises("create_transactions")
  /\ main' = AfterStage(last'.raised, "exit")

(***************************************************************************)
(* Specifications.                                                         *)
(***************************************************************************)
Init ==
  /\ db = EmptyDb
  /\ nextId = 1
  /\ called = {}
  /\ cooperative_ids = <<>>
  /\ last = NoCall
  /\ main = MainStart

\* create_users alone, with every name and phone draw
NextUsers == CreateUsers(1..MaxUsers, TRUE) /\ UNCHANGED main

SpecUsers == Init /\ [][NextUsers]_vars

\* the counts that give no, one and two producers
SeedCounts == {1, 6, 11}

\* the functions up to the catalog, each called at most once, in any order
Next ==
  \/ ClearDatabase(SUBSET CollectionNames) /\ UNCHANGED main
  \/ CreateUsers(SeedCounts, FALSE) /\ UNCHANGED main
  \/ CreateCooperatives(0..MaxCoops, {DatesCooperative}) /\ UNCHANGED main
  \/ CreateProducts(0..MaxPerCoop, FixedDraws({4000, 12000})) /\ UNCHANGED main

Spec == Init /\ [][Next]_vars

\* the counts asked of create_transactions: none, all SETTLED, and the
\* smallest count in which every status occurs
LedgerCounts == {0, 1, 2, 20}

\* the whole pipeline, each function called at most once, in any order, the
\* stages before the ledger following one sequence of draws
NextLedger ==
  \/ ClearDatabase({{}, {"users", "products"}}) /\ UNCHANGED main
  \/ CreateUsers({1, 6}, FALSE) /\ UNCHANGED main
  \/ CreateCooperatives({1}, {DatesCooperative}) /\ UNCHANGED main
  \/ CreateProducts(1..MaxPerCoop, FixedDraws({4010, 5017})) /\ UNCHANGED main
  \/ CreateTransactions(LedgerCounts, {FALSE}) /\ UNCHANGED main

SpecLedger == Init /\ [][NextLedger]_vars

\* what an earlier run left in storage: nothing, or a user
PreviousRun == {EmptyDb, [EmptyDb EXCEPT !.users = <<[AdminUser EXCEPT !._id = 1]>>]}

InitMain ==
  /\ db \in PreviousRun
  /\ nextId = 2
  /\ called = {}
  /\ cooperative_ids = <<>>
  /\ last = NoCall
  /\ main = MainStart

\* one run of main
NextMain ==
  \/ MainConnect
  \/ MainClearDatabase
  \/ MainCreateUsers
  \/ MainCreateCooperatives
  \/ MainCreateProducts
  \/ MainCreateTransactions

SpecMain == InitMain /\ [][NextMain]_vars

\* Casablanca and El Jadida of Casablanca-Settat, Agadir of Souss-Massa
CatalogPlaces == {<<1, 1>>, <<1, 4>>, <<2, 1>>}

\* prices that fall in every range the chain can reach
CatalogPrices == {4000, 8000, 15000, 30000, 50000, 200000}

\* every name of the pool and every unit; a category with a pool of names
\* and one without as the category drawn first
CatalogDraws ==
  [prices |-> CatalogPrices, defaults |-> {"Olive", "Tea"}, names |-> 1..6,
   units |-> 1..4, selections |-> {<<1, 2>>}]

\* one cooperative, with every name of the templates for the places of
\* CatalogPlaces, and one product of it
NextCatalog ==
  \/ CreateUsers({6}, FALSE) /\ UNCHANGED main
  \/ CreateCooperatives({1}, CooperativeNames(CatalogPlaces, Categories))
       /\ UNCHANGED main
  \/ CreateProducts({1}, CatalogDraws) /\ UNCHANGED main

SpecCatalog == Init /\ [][NextCatalog]_vars

\* the first two names of the pool, every selection of images
ImageDraws ==
  [prices |-> {4000}, defaults |-> {"Dates"}, names |-> {1, 2},
   units |-> {1}, selections |-> Selections(4)]

\* two products of one cooperative, so two calls of get_product_images
NextImages ==
  \/ CreateUsers({6}, FALSE) /\ UNCHANGED main
  \/ CreateCooperatives({1}, {DatesCooperative}) /\ UNCHANGED main
  \/ CreateProducts({1, 2}, ImageDraws) /\ UNCHANGED main

SpecImages == Init /\ [][NextImages]_vars

(***************************************************************************)
(* Claims.                                                                 *)
(***************************************************************************)
Built == last.built

Count(s, Test(_)) == Len(SelectIdx(s, Test))

\* C1: after create_users, any two distinct generated users (the admin
\* included) differ in email and differ in phone.
C1_ContactsPairwiseUnique ==
  last.op = "create_users" =>
    \A i, j \in 1..Len(Built) :
      i # j => /\ Built[i].email # Built[j].email
               /\ Built[i].phone # Built[j].phone

\* C5: create_users(N) builds N users, one ADMIN, floor((N-1)*0.2) PRODUCER
\* and the rest BUYER, and returns the N identifiers in insertion order;
\* N = 10 gives 1 admin, 1 producer and 8 buyers.
C5_UserCounts ==
  last.op = "create_users" =>
    LET N == last.arg
        admins == Count(Built, LAMBDA u : u.role = "ADMIN")
        producers == Count(Built, LAMBDA u : u.role = "PRODUCER")
        buyers == Count(Built, LAMBDA u : u.role = "BUYER")
        stored == SubSeq(db.users, Len(db.users) - N + 1, Len(db.users))
    IN /\ last.raised = "none"
       /\ Len(Built) = N
       /\ admins = 1
       /\ 5 * producers <= N - 1 /\ N - 1 < 5 * (producers + 1)
       /\ buyers = N - 1 - producers
       /\ stored = Built
       /\ last.ret = [i \in 1..N |-> StrId(stored[i]._id)]
       /\ N = 10 => producers = 1 /\ buyers = 8

C5_Witness ==
  /\ last.op = "create_users" /\ last.arg = 10
  /\ Count(db.users, LAMBDA u : u.role = "BUYER") = 8
  /\ Len(last.ret) = 10

\* C3: create_cooperatives asked for M with P < M producers available warns,
\* builds exactly P cooperatives and returns without raising, for every P >= 0.
C3_CappedWithoutError ==
  LET P == Len(UsersWithRole("PRODUCER"))
  IN (last.op = "create_cooperatives" /\ P < last.arg) =>
       /\ last.warned
       /\ Len(Built) = P
       /\ last.raised = "none"

\* C4: every cooperative built by one call is owned by a PRODUCER, no two by
\* the same one, and their number is min(M, producers read from storage).
C4_DistinctProducerOwners ==
  last.op = "create_cooperatives" =>
    /\ \A i \in 1..Len(Built) :
         \E k \in 1..Len(db.users) :
           db.users[k]._id = Built[i].userId /\ db.users[k].role = "PRODUCER"
    /\ \A i, j \in 1..Len(Built) : i # j => Built[i].userId # Built[j].userId
    /\ Len(Built) = Min(last.arg, last.read)
    /\ last.read <= Len(UsersWithRole("PRODUCER"))

C4_Witness ==
  /\ last.op = "create_cooperatives"
  /\ Len(Built) = 2
  /\ Built[1].userId # Built[2].userId
  /\ Len(db.cooperatives) = 2

\* C9: every product built by create_products refers to a cooperative found in
\* storage; an identifier that resolves to no document yields no product and
\* no error, every identifier that resolves yields products_per_coop products.
C9_ProductsOfFoundCooperatives ==
  last.op = "create_products" =>
    LET found(id) == \E k \in 1..Len(db.cooperatives) : db.cooperatives[k]._id = id
    IN /\ last.raised = "none"
       /\ \A i \in 1..Len(Built) :
            found(Built[i].cooperativeId) /\ Built[i].cooperativeId \in Range(cooperative_ids)
       /\ \A n \in 1..Len(cooperative_ids) :
            Count(Built, LAMBDA p : p.cooperativeId = cooperative_ids[n]) =
              IF found(cooperative_ids[n])
              THEN last.arg * Count(cooperative_ids, LAMBDA id : id = cooperative_ids[n])
              ELSE 0

\* a call with products asked for cooperatives that were deleted meanwhile
C9_Witness ==
  /\ last.op = "create_products" /\ last.arg > 0
  /\ Len(cooperative_ids) = 2
  /\ db.cooperatives = <<>>
  /\ Built = <<>> /\ last.raised = "none"

\* C10: clear_database calls delete-all on the five collections in the fixed
\* order whatever fails, never raises, and leaves empty every collection whose
\* deletion did not fail.
C10_ClearContinuesPastFailures ==
  last.op = "clear_database" =>
    /\ last.attempted = Collections
    /\ last.raised = "none"
    /\ \A c \in CollectionNames \ last.failed : db[c] = <<>>

C10_Witness ==
  /\ last.op = "clear_database"
  /\ last.failed = {"transactions", "products"}
  /\ db.products # <<>>
  /\ "create_cooperatives" \in called /\ cooperative_ids # <<>>
  /\ db.cooperatives = <<>> /\ db.users = <<>>

\* the documents of a collection with the identifier id
DocsWithId(coll, id) == SelectIdx(coll, LAMBDA x : x._id = id)

\* the entries of transactionlogs that refer to the transaction id
LogsOf(id) == SelectIdx(db.transactionlogs, LAMBDA l : l.transactionId = id)

\* the log sequence of a transaction of status S
ExpectedLogs(S) ==
  IF S = "FAILED" THEN <<"INITIATED", "FAILED">>
  ELSE IF S = "ESCROWED" THEN <<"INITIATED", "ESCROWED">>
  ELSE IF S = "SHIPPED" THEN <<"INITIATED", "ESCROWED", "SHIPPED">>
  ELSE IF S = "DELIVERED" THEN <<"INITIATED", "ESCROWED", "SHIPPED", "DELIVERED">>
  ELSE <<"INITIATED", "ESCROWED", "SHIPPED", "DELIVERED", "SETTLED">>

\* logs, put in the order of createdAt, read exactly as the statuses expected
OrderedAs(logs, expected) ==
  /\ Len(logs) = Len(expected)
  /\ \A k \in 1..Len(expected) :
       \E n \in 1..Len(logs) :
         /\ logs[n].status = expected[k]
         /\ Cardinality({m \in 1..Len(logs) : logs[m].createdAt < logs[n].createdAt}) = k - 1

\* C2: after create_transactions, the log entries of every inserted
\* transaction, ordered by createdAt, are [INITIATED, FAILED] for FAILED and
\* otherwise the prefix of the canonical order that ends at its status.
C2_LogsReconstructStatus ==
  last.op = "create_transactions" =>
    \A i \in 1..Len(Built) :
      OrderedAs(LogsOf(Built[i]._id), ExpectedLogs(Built[i].status))

\* C6: the seller of every transaction built is the owner of the cooperative
\* of its product; a draw whose product's cooperative has no owner in the
\* mapping builds no transaction, and the call does not raise.
C6_SellerOwnsProductCooperative ==
  last.op = "create_transactions" =>
    LET owners(productId) ==
          {c.userId : c \in {x \in Range(db.cooperatives) :
             \E p \in Range(db.products) :
               p._id = productId /\ p.cooperativeId = x._id}}
        kept == SelectIdx(last.slots, LAMBDA slot : owners(slot.productId) # {})
    IN /\ last.raised = "none"
       /\ Len(Built) = Len(kept)
       /\ \A i \in 1..Len(Built) :
            /\ Built[i].productId = kept[i].productId
            /\ owners(Built[i].productId) = {Built[i].sellerId}
       /\ Len(db.transactions) = Len(Built)
       /\ (~last.warned => Len(last.slots) = last.arg)

\* every draw of a call went to a product whose cooperative is gone
C6_Witness ==
  /\ last.op = "create_transactions" /\ last.arg = 2
  /\ Len(last.slots) = 2 /\ db.cooperatives = <<>>
  /\ Built = <<>> /\ db.transactions = <<>>

\* C7: settledAt is set exactly for SETTLED, then 1 to 7 whole days after
\* createdAt and equal to updatedAt; otherwise updatedAt is createdAt plus 0 to
\* 3 whole days.
C7_SettlementTimes ==
  last.op = "create_transactions" =>
    \A i \in 1..Len(Built) :
      LET tx == Built[i]
      IN /\ (tx.settledAt # <<>>) <=> (tx.status = "SETTLED")
         /\ tx.settledAt # <<>> =>
              /\ \E d \in 1..7 : tx.settledAt[1] = tx.createdAt + 24 * d
              /\ tx.updatedAt = tx.settledAt[1]
         /\ tx.settledAt = <<>> =>
              \E d \in 0..3 : tx.updatedAt = tx.createdAt + 24 * d

C7_Witness ==
  /\ last.op = "create_transactions"
  /\ Len(Built) = 20
  /\ Built[1].status = "DELIVERED" /\ Built[1].settledAt = <<>>
  /\ Built[1].updatedAt = Built[1].createdAt + 72
  /\ \E i \in 1..Len(Built) :
       Built[i].status = "SETTLED" /\ Built[i].settledAt = <<Built[i].createdAt + 24>>

\* C8: in hundredths, amount = price x quantity, fee is amount x 0.05 rounded
\* to the nearest hundredth and totalAmount = amount + fee; the quantity is in
\* 1..5, or in 2..10 when the unit price is below 50.
C8_Amounts ==
  last.op = "create_transactions" =>
    \A i \in 1..Len(Built) :
      LET tx == Built[i]
          product == DocsWithId(db.products, tx.productId)[1]
      IN /\ tx.amount = product.price * tx.quantity
         /\ IF product.price < 5000
            THEN 2 <= tx.quantity /\ tx.quantity <= 10
            ELSE 1 <= tx.quantity /\ tx.quantity <= 5
         /\ 100 * tx.fee - 5 * tx.amount <= 50
         /\ 5 * tx.amount - 100 * tx.fee <= 50
         /\ tx.totalAmount = tx.amount + tx.fee

\* a purchase whose exact fee 250.85 is rounded up to 251, beside a purchase of
\* two units of a product cheaper than 50
C8_Witness ==
  /\ last.op = "create_transactions"
  /\ \E i \in 1..Len(Built) :
       /\ Built[i].quantity = 1 /\ Built[i].amount = 5017
       /\ Built[i].fee = 251 /\ Built[i].totalAmount = 5268
  /\ \E i \in 1..Len(Built) : Built[i].quantity = 2 /\ Built[i].amount = 8020

\* every collection of d is still there in e, in order, at its start
Kept(d, e) ==
  \A c \in CollectionNames :
    Len(d[c]) <= Len(e[c]) /\ SubSeq(e[c], 1, Len(d[c])) = d[c]

\* C11: when a call of main after the connection raises, no later call runs,
\* the exit status is non-zero and every document stored before stays; a failed
\* ping exits non-zero with storage untouched; exit status 0 is reached only
\* when all five calls returned.
C11_FailureEndsRun ==
  [][/\ main.exit = "none"
     /\ (main.pc = "connect" /\ main'.exit # "none") =>
          main'.exit = "1" /\ UNCHANGED <<db, called, last>>
     /\ (main.pc # "connect" /\ last'.raised # "none") =>
          /\ main'.exit = "1"
          /\ Kept(db, db')
          /\ \A k \in 1..Len(Stages) :
               Stages[k] \in called' => \A j \in 1..k : Stages[j] \in called'
     /\ main'.exit = "none" => last'.raised = "none"
     /\ main'.exit = "0" =>
          /\ last'.raised = "none" /\ last.raised = "none"
          /\ called' = Range(Stages)]_vars

\* the insertion of the log entries failed after the transactions, the
\* products, the cooperative and the users were stored
C11_Witness ==
  /\ main.exit = "1"
  /\ last.op = "create_transactions" /\ last.raised # "none"
  /\ Len(db.transactions) = 2 /\ db.transactionlogs = <<>>
  /\ Len(db.products) = 1 /\ Len(db.cooperatives) = 1 /\ Len(db.users) = 7

\* the category create_products inferred for the cooperative of a product built
CategoryOf(product) ==
  LET at == {k \in 1..Len(last.categories) :
               last.categories[k].cooperativeId = product.cooperativeId}
  IN last.categories[CHOOSE k \in at : TRUE].category

\* C12 as stated: two products of one call with the same category and name
\* have the same set of image references; the list has 2 to 4 references and
\* the primary image is its first element.
C12_SameArgumentsSameImages ==
  last.op = "create_products" =>
    /\ \A i, j \in 1..Len(Built) :
         (Built[i].name = Built[j].name /\ CategoryOf(Built[i]) = CategoryOf(Built[j]))
           => Range(Built[i].imageUrls) = Range(Built[j].imageUrls)
    /\ \A i \in 1..Len(Built) :
         /\ Len(Built[i].imageUrls) \in 2..4
         /\ Built[i].imageUrl = Built[i].imageUrls[1]

\* C12, amended: the image references of a product are 2 to 4 different
\* members of a pool of four references fixed by category and name (the four
\* seeds of the category, all shifted by one offset below 10), in the order
\* drawn; the primary image is the first of them; two products with the same
\* category and name draw from the same pool, and may hold different sets.
C12_SelectionFromFixedPool ==
  last.op = "create_products" =>
    /\ \A i \in 1..Len(Built) :
         LET urls == Built[i].imageUrls
             seeds == CategorySeeds[CategoryOf(Built[i])]
         IN /\ Len(urls) \in 2..4
            /\ \A m, n \in 1..Len(urls) : m # n => urls[m] # urls[n]
            /\ \E offset \in 0..9 :
                 \A m \in 1..Len(urls) :
                   \E n \in 1..Len(seeds) : urls[m] = ImageUrl(seeds[n] + offset)
            /\ Built[i].imageUrl = urls[1]
    /\ \A i, j \in 1..Len(Built) :
         (Built[i].name = Built[j].name /\ CategoryOf(Built[i]) = CategoryOf(Built[j]))
           => \E offset \in 0..9 :
                \A u \in Range(Built[i].imageUrls) \cup Range(Built[j].imageUrls) :
                  \E n \in 1..4 :
                    u = ImageUrl(CategorySeeds[CategoryOf(Built[i])][n] + offset)

\* two products with the same category and name, one with two images and one
\* with four, the first image of the one not being the first of the other
C12_Witness ==
  /\ last.op = "create_products" /\ Len(Built) = 2
  /\ Built[1].name = Built[2].name
  /\ CategoryOf(Built[1]) = CategoryOf(Built[2])
  /\ Len(Built[1].imageUrls) = 2 /\ Len(Built[2].imageUrls) = 4
  /\ Built[1].imageUrl # Built[2].imageUrl
  /\ Built[1].imageUrl = Built[2].imageUrls[4]

\* C13: the category of a cooperative is the category of the first word of
\* its name that matches a name of some category, whatever the later words,
\* and the category drawn at random when no word matches.
C13_FirstMatchingWordDecides ==
  last.op = "create_products" =>
    \A k \in 1..Len(last.categories) :
      LET c == last.categories[k]
          words == Split(c.name)
          matching == {n \in 1..Len(words) : MatchingCategory(words[n]) # 0}
          first == CHOOSE n \in matching : \A o \in matching : n <= o
      IN c.category = IF matching = {} THEN c.default
                      ELSE PRODUCT_CATEGORIES[MatchingCategory(words[first])].key

\* the branch of the price table C14 gives to a category, 0 for the others
TableBranch(category) ==
  CASE category \in {"Argan", "Olive"} -> 1
    [] category = "Honey" -> 2
    [] category = "Dates" -> 3
    [] category = "Saffron" -> 4
    [] category = "Almonds" -> 5
    [] category = "Spices" -> 6
    [] OTHER -> 0

\* C14: the price range and the unit of a product follow from its category:
\* the range and unit of the table for Argan, Olive, Honey, Dates, Saffron,
\* Almonds and Spices, and 50 to 300 with one of the four units for the others
\* only, whatever name generate_product_name returned.
C14_PriceAndUnitByCategory ==
  last.op = "create_products" =>
    \A i \in 1..Len(Built) :
      LET k == TableBranch(CategoryOf(Built[i]))
          range == IF k = 0 THEN OtherRange ELSE PriceBranches[k].range
      IN /\ range[1] <= Built[i].price /\ Built[i].price <= range[2]
         /\ IF k = 0 THEN Built[i].unit \in Range(OtherUnits)
            ELSE Built[i].unit = PriceBranches[k].unit

====
